---- MODULE Spec2Model ----
\* TradeMaster: the LLM handler's conversation store (core/llm.py), the user
\* memory it consults (core/memory.py), the LangGraph router (core/router_new.py)
\* and the Discord event and command handlers (bot/events.py, bot/commands.py).
EXTENDS Integers, Sequences, FiniteSets, Bags, TLC

\* ------------------------------------------------------------------ bounds
\* llm.context_window_size of the configuration (default 10), kept small here
context_window_size == 1
\* number of LLMHandler calls started in one run of the model
MaxTurns == 2
\* number of LLMHandler calls that can be suspended at an await at once
MaxTasks == 2
\* number of Discord messages on_message handles at once
MaxMessages == 2
\* length, in tokens, of the LLM's reply to the classification prompt
MaxReplyLen == 3
\* latest time, in seconds, the event loop's clock reaches
MaxClock == 1202

Users == {"u1", "u2"}
\* the k-th call started carries the text <<"m", k>>
Texts == {<<"m", k>> : k \in 1..MaxTurns}
None == "None"
\* None where a text is expected
NoneText == <<None>>
\* a message arrives with its channel: <<channel_id, channel_name>>
Channels == {<<"c1", "general">>}
ToolOutputs == {<<"out1">>, <<"out2">>}
\* what the sqlite statements of one storage call do: "ok"; "error": a
\* statement raises sqlite3.Error before anything is written; "commit": the
\* statements are applied on the connection and conn.commit() raises, so the
\* call reports failure while the rows stay in the connection's transaction
\* (no method rolls back) and are committed with the next commit
DbResults == {"ok", "error", "commit"}
\* outcomes of the two get_user_profile calls of a turn, each on its own
DbOutcomes == DbResults \X DbResults
\* the SELECTs of get_memory_summary; each may fail on its own
SummaryReads == {"fact", "preference", "wallet_info", "wallets"}
\* outcomes of the HTTP request of _call_llm_api
HttpOutcomes == {"200", "status", "ClientError", "Exception"}

\* ------------------------------------------------------------------ state
VARIABLES
    api_key,          \* LLMHandler.api_key is set (GROQ_API_KEY present)
    memory_on,        \* LLMHandler.user_memory is present and enabled
    conversations,    \* LLMHandler.conversations: user_id -> list of messages
    profiles,         \* user_profiles.interactions_count per user (absent: no row)
    conversation_history, \* rows of the conversation_history table, oldest first
    tasks,            \* bag of LLMHandler coroutines suspended at their await
    started,          \* number of LLMHandler calls started so far
    last_call,        \* the call completed last: op, user_id, value returned
    turns,            \* on_message coroutines: the message, RouterState, position
    cooldowns,        \* TradeMasterClient.cooldowns: channel_id -> time
    clock,            \* the event loop's time
    intent_call,      \* the last LLMHandler.analyze_intent call and its result
    conversation_memory, \* rows of the conversation_memory table, oldest first
    store_time,       \* datetime.now() of the storage call made last
    store_call,       \* the storage call made last: op, arguments, result
    trades,           \* rows of the trades table, oldest first
    user_stats,       \* rows of the user_stats table by user_id
    tracked_wallets,  \* WalletTracker.tracked_wallets: address -> user_id
    wallets_file,     \* the addresses in data/tracked_wallets.json
    user_wallets,     \* rows of the user_wallets table, oldest first
    tracking          \* _handle_track_request coroutines awaiting the balance

llm_vars == <<api_key, memory_on, conversations, profiles, conversation_history, tasks,
              started, last_call>>
bot_vars == <<turns, cooldowns, clock>>
trade_vars == <<trades, user_stats>>
wallet_vars == <<tracked_wallets, wallets_file, user_wallets, tracking>>
store_vars == <<conversation_memory, store_time, store_call, trade_vars, wallet_vars>>
vars == <<llm_vars, bot_vars, intent_call, store_vars>>

\* ------------------------------------------------------- text and messages
\* strings are tuples of parts; an f-string concatenation is tuple concatenation
system_message == <<"persona">>
NoKeyText == <<"LLM integration is not available (missing API key).">>
ApiErrorText == <<"I'm having trouble connecting to my language model at the moment. Please try again later.">>
ClientErrorText == <<"I'm having trouble with my connection. Please try again later.">>
UnexpectedErrorText == <<"I encountered an unexpected error. Please try again later.">>
LLMReplies == {<<"r1">>}
ResetText == <<"Your conversation history has been reset. What would you like to talk about now?">>

Message(role, content, name) == [role |-> role, content |-> content, name |-> name]

\* _call_llm_api never raises: every failure is turned into a text it returns
_call_llm_api(key, outcome, content) ==
    IF ~key THEN NoKeyText
    ELSE IF outcome = "200" THEN content
    ELSE IF outcome = "status" THEN ApiErrorText
    ELSE IF outcome = "ClientError" THEN ClientErrorText
    ELSE UnexpectedErrorText

\* the last n elements of s (python s[-n:], n >= 1)
Last(s, n) == IF Len(s) <= n THEN s ELSE SubSeq(s, Len(s) - n + 1, Len(s))

max_history == 1 + (context_window_size * 2)

\* a truncation that keeps the last max_history entries and loses the system message
TruncateDropsSystem(h) ==
    IF Len(h) > max_history
    THEN Last(h, max_history)
    ELSE h

\* lines 140-144 of process_message
Truncate(h) ==
    IF Len(h) > max_history
    THEN <<h[1]>> \o Last(h, max_history - 1)
    ELSE h

\* ------------------------------------------------------------- user memory
HasProfile(p, u) == u \in DOMAIN p

\* UserMemory.get_user_profile (memory.py 60-118): the profile table after
\* the call and the row returned (None when nothing is returned). An existing
\* row is returned as it was read, before the UPDATE that counts the call
get_user_profile(p, u, username, o) ==
    IF o = "error" THEN [table |-> p, row |-> None]
    ELSE IF HasProfile(p, u)
         THEN [table |-> [p EXCEPT ![u] = @ + 1],
               row |-> IF o = "ok" THEN <<u, p[u]>> ELSE None]
    ELSE IF username # None
         THEN [table |-> (u :> 1) @@ p,
               row |-> IF o = "ok" THEN <<u, 1>> ELSE None]
    ELSE [table |-> p, row |-> None]

\* python s[:n]
Take(s, n) == IF Len(s) <= n THEN s ELSE SubSeq(s, 1, n)

\* ORDER BY updated_at DESC; rows written by the same call keep their order
RECURSIVE ByUpdatedDesc(_)
ByUpdatedDesc(rows) ==
    IF rows = <<>> THEN <<>>
    ELSE LET k == CHOOSE i \in 1..Len(rows) :
                     \A j \in 1..Len(rows) :
                        \/ rows[j].updated_at < rows[i].updated_at
                        \/ rows[j].updated_at = rows[i].updated_at /\ j >= i
         IN  <<rows[k]>> \o ByUpdatedDesc(SubSeq(rows, 1, k - 1)
                                          \o SubSeq(rows, k + 1, Len(rows)))

\* UserMemory.get_memories(user_id, memory_type) (memory.py 291-343); an
\* sqlite3.Error gives the empty list
get_memories(memory, user_id, memory_type, ok) ==
    IF ~ok THEN <<>>
    ELSE ByUpdatedDesc(SelectSeq(memory, LAMBDA r : /\ r.user_id = user_id
                                                   /\ r.memory_type = memory_type))

\* UserMemory.get_user_wallets (memory.py 153-182); an sqlite3.Error gives
\* the empty list
get_user_wallets(wallets, user_id, ok) ==
    IF ~ok THEN <<>> ELSE SelectSeq(wallets, LAMBDA r : r[1] = user_id)

\* the lines "- {topic}: {content}" of a section, under its title; no rows,
\* no section
MemorySection(title, rows) ==
    IF rows = <<>> THEN <<>>
    ELSE <<<<title>>>> \o [i \in 1..Len(rows) |-> <<"-", rows[i].topic, rows[i].content>>]

\* the lines "- {wallet_address} on {network}" under "Tracked wallets:"
WalletSection(rows) ==
    IF rows = <<>> THEN <<>>
    ELSE <<<<"Tracked wallets:">>>> \o [i \in 1..Len(rows) |-> <<"wallet", rows[i][2], "on", "eth">>]

\* UserMemory.get_memory_summary (memory.py 482-539): the profile table after
\* the call and the summary, a list of lines (<<>> is the empty string);
\* failed holds the SELECTs of the sections that raise
get_memory_summary(p, memory, wallets, u, o, failed) ==
    LET g == get_user_profile(p, u, None, o)
        facts == get_memories(memory, u, "fact", "fact" \notin failed)
        preferences == get_memories(memory, u, "preference", "preference" \notin failed)
        wallet_info == get_memories(memory, u, "wallet_info", "wallet_info" \notin failed)
        tracked == get_user_wallets(wallets, u, "wallets" \notin failed)
    IN  IF g.row = None
        THEN [table |-> g.table, summary |-> <<>>]
        ELSE [table |-> g.table,
              summary |-> <<<<"User:">> \o g.row>>
                          \o MemorySection("Important facts:", Take(facts, 5))
                          \o MemorySection("Preferences:", Take(preferences, 5))
                          \o MemorySection("Wallet information:", Take(wallet_info, 5))
                          \o WalletSection(tracked)]

\* UserMemory.log_conversation (memory.py 414-446): the table after the call
log_conversation(history, user_id, channel_id, message_content, bot_response, o) ==
    IF o = "error" THEN history
    ELSE Append(history, <<user_id, channel_id, message_content, bot_response>>)

\* ------------------------------------------------------------- the router
Bot == "bot"
Authors == {"u1", Bot}
ChannelIds == {"c1"}
Stages == {"should_respond", "analyze_intent", "execute_tool", "generate_response"}
\* Router.tools (router_new.py lines 56-61)
tools == {"track_wallet", "market_trend", "trade_critique", "general"}
ApologyText == <<"I'm having trouble processing your message right now. Please try again later.">>
\* what the Ollama model answers to the should_respond prompt: a JSON object
\* with should_respond true or false, text JsonOutputParser rejects or that
\* lacks the key, or the call raises
GateAnswers == {"true", "false", "malformed", "error"}
\* what it answers to the analyze_intent prompt
ToolAnswers == {"track_wallet", "unknown_tool", "malformed", "error"}
\* what an awaited call does: returns or raises
CallOutcomes == {"returns", "raises"}
\* what a tool's process returns to Router._execute_tool
ToolReplies == {<<"out1">>}
\* a message that does not ask to track an address
NoAddress == <<>>
\* what a message asks the wallet tracker: nothing, or to track this address
TrackRequests == {NoAddress, <<"0xaaaaaa", "1">>}
\* what it answers to the generate_response prompt (<<>> is the empty string)
FinalTexts == {<<"reply">>, <<>>}

\* RouterState.__init__ (router_new.py lines 23-32) inside an on_message call
\* wallet_address: the local of WalletTracker._handle_track_request while
\* the call waits for the balance (NoAddress outside of it)
IdleTurn ==
    [pc |-> "idle", author |-> None, channel_id |-> None, direct |-> FALSE,
     command |-> FALSE, wallet_address |-> NoAddress, current_time |-> 0,
     should_continue |-> TRUE, current_tool |-> None,
     tool_response |-> NoneText, final_response |-> NoneText, ran |-> {},
     processed |-> None, failed_at |-> None, response |-> NoneText,
     is_proactive |-> FALSE,
     sent |-> FALSE, sent_at |-> 0]

\* ------------------------------------------------------------- LLMHandler
Task(op, u, text, channel_id, tool_output) ==
    [op |-> op, user_id |-> u, text |-> text, channel_id |-> channel_id,
     tool_output |-> tool_output]

\* a call completes and returns value (for a command: the text it sends)
Complete(op, u, value) ==
    last_call' = [op |-> op, user_id |-> u, value |-> value]

\* requesters are interchangeable: the first one to start a turn is "u1"
CanStart(u, text) ==
    /\ started < MaxTurns
    /\ started = 0 => u = "u1"
    /\ BagCardinality(tasks) < MaxTasks
    /\ text = <<"m", started + 1>>

TypeOK ==
    /\ api_key \in BOOLEAN
    /\ memory_on \in BOOLEAN
    /\ DOMAIN conversations \subseteq Users
    /\ DOMAIN profiles \subseteq Users
    /\ IsABag(tasks)
    /\ started \in 0..MaxTurns

\* no conversation, no call made, no row in user_profiles and none logged
InitConversations ==
    /\ conversations = <<>>
    /\ profiles = <<>>
    /\ conversation_history = <<>>
    /\ tasks = EmptyBag
    /\ started = 0
    /\ last_call = [op |-> None, user_id |-> None, value |-> None]

\* LLMHandler.__init__ (llm.py 30-90). UserMemory() builds a Database, whose
\* _create_tables raises sqlite3.OperationalError at the CREATE TABLE of
\* conversation_memory (db.py 157-168: the "#" in the column list is no SQL
\* token); the three attempts of lines 50-68 all fail and user_memory stays
\* None. With memory.enabled false in the configuration UserMemory() returns
\* an object whose methods all return at their first test: no memory either
InitLLM ==
    /\ api_key \in BOOLEAN
    /\ memory_on = FALSE
    /\ InitConversations

\* process_message up to its await (lines 111-148); o1 and o2 are the
\* outcomes of its two get_user_profile calls
process_message_begin(u, text, channel_id, channel_name, o1, o2, failed) ==
    /\ CanStart(u, text)
    /\ LET g1 == IF memory_on THEN get_user_profile(profiles, u, u, o1)
                 ELSE [table |-> profiles, row |-> None]
           g2 == IF memory_on
                 THEN get_memory_summary(g1.table, conversation_memory,
                                         user_wallets, u, o2, failed)
                 ELSE [table |-> profiles, summary |-> <<>>]
           user_context == IF g2.summary # <<>>
                           THEN <<"USER CONTEXT:">> \o g2.summary
                           ELSE <<>>
           h0 == IF u \notin DOMAIN conversations
                 THEN <<Message("system", system_message \o user_context, None)>>
                 ELSE IF user_context # <<>>
                 THEN [conversations[u] EXCEPT
                          ![1].content = system_message \o user_context]
                 ELSE conversations[u]
           user_message == Message("user", text,
                                   IF channel_name # None
                                   THEN <<u, channel_name>> ELSE None)
           h1 == Truncate(Append(h0, user_message))
       IN  /\ profiles' = g2.table
           /\ conversations' = (u :> h1) @@ conversations
    /\ tasks' = tasks (+) SetToBag({Task("process_message", u, text, channel_id, NoneText)})
    /\ started' = started + 1
    /\ UNCHANGED <<api_key, memory_on, conversation_history, last_call, bot_vars, intent_call, store_vars>>

\* a process_message that keeps one history for all requesters: the reply
\* is appended to every conversation
process_message_end_shared(task, outcome, content, logged) ==
    /\ BagIn(task, tasks)
    /\ task.op = "process_message"
    /\ LET u == task.user_id
           response_text == _call_llm_api(api_key, outcome, content)
       IN  /\ conversations' = [v \in DOMAIN conversations |->
                  Append(conversations[v], Message("assistant", response_text, None))]
           /\ conversation_history' =
                  IF memory_on /\ task.channel_id # None
                  THEN log_conversation(conversation_history, u, task.channel_id,
                                        task.text, response_text, logged)
                  ELSE conversation_history
           /\ Complete("process_message", u, response_text)
    /\ tasks' = tasks (-) SetToBag({task})
    /\ UNCHANGED <<api_key, memory_on, profiles, started, bot_vars, intent_call, store_vars>>

\* process_message after its await (lines 148-157); logged is the outcome of
\* log_conversation, whose result the caller does not read
process_message_end(task, outcome, content, logged) ==
    /\ BagIn(task, tasks)
    /\ task.op = "process_message"
    /\ LET u == task.user_id
           response_text == _call_llm_api(api_key, outcome, content)
       IN  /\ conversations' = [conversations EXCEPT
                  ![u] = Append(@, Message("assistant", response_text, None))]
           /\ conversation_history' =
                  IF memory_on /\ task.channel_id # None
                  THEN log_conversation(conversation_history, u, task.channel_id,
                                        task.text, response_text, logged)
                  ELSE conversation_history
           /\ Complete("process_message", u, response_text)
    /\ tasks' = tasks (-) SetToBag({task})
    /\ UNCHANGED <<api_key, memory_on, profiles, started, bot_vars, intent_call, store_vars>>

\* a synthesis that has no early return and reaches _call_llm_api without key
generate_response_with_tool_output_nokey_calls(u, original_message, tool_output) ==
    /\ ~api_key
    /\ Complete("generate_response_with_tool_output", u,
                _call_llm_api(api_key, "200", tool_output))
    /\ UNCHANGED <<api_key, memory_on, conversations, profiles, conversation_history,
                   tasks, started, bot_vars, intent_call, store_vars>>

\* generate_response_with_tool_output without an API key (lines 252-254)
generate_response_with_tool_output_nokey(u, original_message, tool_output) ==
    /\ ~api_key
    /\ Complete("generate_response_with_tool_output", u, tool_output)
    /\ UNCHANGED <<api_key, memory_on, conversations, profiles, conversation_history,
                   tasks, started, bot_vars, intent_call, store_vars>>

\* generate_response_with_tool_output up to its await (lines 256-271)
generate_response_with_tool_output_begin(u, original_message, tool_output, channel_id) ==
    /\ api_key
    /\ CanStart(u, original_message)
    /\ tasks' = tasks (+) SetToBag({Task("generate_response_with_tool_output", u,
                                         original_message, channel_id, tool_output)})
    /\ started' = started + 1
    /\ UNCHANGED <<api_key, memory_on, conversations, profiles, conversation_history,
                   last_call, bot_vars, intent_call, store_vars>>

\* generate_response_with_tool_output after its await (lines 271-286);
\* logged is the outcome of log_conversation
generate_response_with_tool_output_end(task, outcome, content, logged) ==
    /\ BagIn(task, tasks)
    /\ task.op = "generate_response_with_tool_output"
    /\ LET u == task.user_id
           response_text == _call_llm_api(api_key, outcome, content)
           h0 == IF u \notin DOMAIN conversations
                 THEN <<Message("system", system_message, None)>>
                 ELSE conversations[u]
           h1 == Append(h0, Message("user", task.text, None))
           h2 == Append(h1, Message("assistant", response_text, None))
       IN  /\ conversations' = (u :> h2) @@ conversations
           /\ conversation_history' =
                  IF memory_on /\ task.channel_id # None
                  THEN log_conversation(conversation_history, u, task.channel_id,
                                        task.text, response_text, logged)
                  ELSE conversation_history
           /\ Complete("generate_response_with_tool_output", u, response_text)
    /\ tasks' = tasks (-) SetToBag({task})
    /\ UNCHANGED <<api_key, memory_on, profiles, started, bot_vars, intent_call, store_vars>>

\* a clear_conversation that reports whether there was anything to remove
clear_conversation_reports_removed(u) ==
    /\ IF u \in DOMAIN conversations
       THEN /\ conversations' = [conversations EXCEPT ![u] = <<@[1]>>]
            /\ Complete("clear_conversation", u, Len(conversations[u]) > 1)
       ELSE /\ conversations' = conversations
            /\ Complete("clear_conversation", u, FALSE)
    /\ UNCHANGED <<api_key, memory_on, profiles, conversation_history, tasks, started,
                   bot_vars, intent_call, store_vars>>

\* LLMHandler.clear_conversation (lines 357-361)
clear_conversation(u) ==
    /\ IF u \in DOMAIN conversations
       THEN /\ conversations' = [conversations EXCEPT ![u] = <<@[1]>>]
            /\ Complete("clear_conversation", u, TRUE)
       ELSE /\ conversations' = conversations
            /\ Complete("clear_conversation", u, FALSE)
    /\ UNCHANGED <<api_key, memory_on, profiles, conversation_history, tasks, started, bot_vars, intent_call, store_vars>>

\* the "/tm reset" command (bot/commands.py lines 23-30)
reset_conversation(u) ==
    /\ Complete("reset_conversation", u, ResetText)
    /\ UNCHANGED <<api_key, memory_on, conversations, profiles, conversation_history,
                   tasks, started, bot_vars, intent_call, store_vars>>

\* ------------------------------------------- LLMHandler.analyze_intent
\* a reply is a sequence of tokens: blanks, the separator and words
ReplyTokens == {" ", "|", "general", "market_trend", "other", "0.87", "1.5", "-0.2"}
RECURSIVE SeqsUpTo(_, _)
SeqsUpTo(S, n) ==
    IF n = 0 THEN {<<>>}
    ELSE LET shorter == SeqsUpTo(S, n - 1)
         IN  shorter \cup {Append(q, x) : q \in shorter, x \in S}
ClassifierReplies == SeqsUpTo(ReplyTokens, MaxReplyLen) \cup {NoneText}

\* str.strip()
RECURSIVE Strip(_)
Strip(s) ==
    IF s = <<>> THEN s
    ELSE IF Head(s) = " " THEN Strip(Tail(s))
    ELSE IF s[Len(s)] = " " THEN Strip(SubSeq(s, 1, Len(s) - 1))
    ELSE s

\* str.split('|')
RECURSIVE Split(_)
Split(s) ==
    IF \A i \in 1..Len(s) : s[i] # "|" THEN <<s>>
    ELSE LET k == CHOOSE i \in 1..Len(s) :
                     s[i] = "|" /\ \A j \in 1..(i - 1) : s[j] # "|"
         IN  <<SubSeq(s, 1, k - 1)>> \o Split(SubSeq(s, k + 1, Len(s)))

\* float(): the value in hundredths, or a ValueError
Float(s) ==
    IF s = <<"0.87">> THEN [ok |-> TRUE, value |-> 87]
    ELSE IF s = <<"1.5">> THEN [ok |-> TRUE, value |-> 150]
    ELSE IF s = <<"-0.2">> THEN [ok |-> TRUE, value |-> -20]
    ELSE [ok |-> FALSE, value |-> 0]

valid_intents == {<<"track_wallet">>, <<"market_trend">>, <<"trade_critique">>,
                  <<"general">>}

Returned(intent, confidence) ==
    [raised |-> FALSE, intent |-> intent, confidence |-> confidence]
\* the no-key path hands Router._analyze_intent a dict where it reads
\* .content (llm.py line 183, router_new.py line 127): AttributeError
Raised == [raised |-> TRUE, intent |-> <<>>, confidence |-> 0]

\* LLMHandler.analyze_intent (llm.py lines 178-230); confidence in hundredths
analyze_intent(key, outcome, content) ==
    IF ~key THEN Raised
    ELSE LET response_text == _call_llm_api(key, outcome, content)
         IN  IF response_text = NoneText
             THEN Returned(<<"general">>, 60)
             ELSE LET parts == Split(Strip(response_text))
                  IN  IF Len(parts) = 2
                      THEN LET intent == Strip(parts[1])
                               f == Float(Strip(parts[2]))
                               confidence == IF f.ok THEN f.value ELSE 70
                           IN  IF intent \notin valid_intents
                               THEN Returned(<<"general">>, confidence)
                               ELSE Returned(intent, confidence)
                      ELSE Returned(<<"general">>, 70)

\* TradeMasterClient.__init__ (bot/client.py lines 36-63)
InitBot ==
    /\ turns = EmptyBag
    /\ cooldowns = <<>>
    /\ clock = 0

InitIntent ==
    intent_call = [text |-> <<>>, outcome |-> None, content |-> <<>>,
                   result |-> Returned(<<>>, 0)]

\* the storage the constructors leave (db.py 70-186, tracker.py 48-60): the
\* tables created before the statement that raises hold no rows, the tables
\* conversation_memory and conversation_history do not exist (no rows
\* either), no tracked_wallets.json, WalletTracker.memory_handler is None
InitStore ==
    /\ conversation_memory = <<>>
    /\ store_time = 0
    /\ store_call = [op |-> None]
    /\ trades = <<>>
    /\ user_stats = <<>>
    /\ tracked_wallets = <<>>
    /\ wallets_file = {}
    /\ user_wallets = <<>>
    /\ tracking = {}

Init == InitLLM /\ InitBot /\ InitIntent /\ InitStore

\* the bot alone: the LLM handler without API key
InitBotOnly == Init /\ ~api_key

\* the classifier alone, with and without API key
InitIntentOnly == Init

\* one call of analyze_intent, with the request's outcome and the reply
analyze_intent_call(text, outcome, content) ==
    /\ intent_call.outcome = None
    /\ intent_call' = [text |-> text, outcome |-> outcome, content |-> content,
                       result |-> analyze_intent(api_key, outcome, content)]
    /\ UNCHANGED <<llm_vars, bot_vars, store_vars>>

NextIntent ==
    \E text \in Texts, outcome \in HttpOutcomes, content \in ClassifierReplies :
        analyze_intent_call(text, outcome, content)

SpecIntent == InitIntentOnly /\ [][NextIntent]_vars

\* ------------------------------------------- UserMemory.add_memory
\* every storage call is one synchronous call; its datetime.now() is later
\* than that of the call before
MaxStoreCalls == 3

\* a topic is a sequence of characters; "RISK" is the upper-case spelling of
\* "risk", "%" and "_" are the characters LIKE reads as wildcards
Lower(c) == IF c = "RISK" THEN "risk" ELSE c

\* (user_id, memory_type, topic)
MemoryKeys == {<<"u1", "fact", <<"risk">>>>, <<"u2", "fact", <<"risk">>>>,
               <<"u1", "preference", <<"risk">>>>, <<"u1", "fact", <<"RISK", "y">>>>}
\* what delete_memories_by_topic is asked to delete: a topic, a part of one,
\* the empty string, a wildcard
DeleteTopics == {<<"risk">>, <<"y">>, <<>>, <<"%">>, <<"_">>}
Contents == {<<"low">>, <<"high">>}
\* metadata: None, the empty dict, a dict with entries
Metadatas == {<<None>>, <<"{}">>, <<"{", "k", "}">>}

\* json.dumps(metadata) if metadata else None (core/memory.py line 269)
metadata_json(metadata) ==
    IF metadata \in {<<None>>, <<"{}">>} THEN <<None>> ELSE <<"json">> \o metadata

\* SELECT id ... WHERE user_id = ? AND memory_type = ? AND topic = ?, fetchone
SelectMemory(table, key) ==
    {i \in 1..Len(table) : /\ table[i].user_id = key[1]
                           /\ table[i].memory_type = key[2]
                           /\ table[i].topic = key[3]}

Min(S) == CHOOSE x \in S : \A y \in S : x <= y
Max(S) == CHOOSE x \in S : \A y \in S : x >= y

\* the id of a new row of a table with INTEGER PRIMARY KEY
NewId(table) == IF table = <<>> THEN 1 ELSE Max({table[i].id : i \in 1..Len(table)}) + 1

\* the table after the statements of UserMemory.add_memory (core/memory.py
\* lines 259-281)
add_memory_table(table, key, content, metadata, now) ==
    LET found == SelectMemory(table, key)
    IN  IF found # {}
        THEN LET i == Min(found)
             IN  [table EXCEPT ![i] = [table[i] EXCEPT
                        !.content = content,
                        !.metadata = metadata_json(metadata),
                        !.updated_at = now]]
        ELSE Append(table, [id |-> NewId(table), user_id |-> key[1],
                            memory_type |-> key[2], topic |-> key[3],
                            content |-> content,
                            metadata |-> metadata_json(metadata),
                            created_at |-> now, updated_at |-> now])

\* UserMemory.add_memory (core/memory.py lines 238-289): True only when the
\* commit succeeded; the row is written whenever the statements ran
add_memory(key, content, metadata, o) ==
    /\ store_time < MaxStoreCalls
    /\ store_time' = store_time + 1
    /\ IF memory_on /\ o # "error"
       THEN conversation_memory' =
                add_memory_table(conversation_memory, key, content, metadata,
                                 store_time + 1)
       ELSE UNCHANGED conversation_memory
    /\ store_call' = [op |-> "add_memory", key |-> key, content |-> content,
                      metadata |-> metadata, outcome |-> o,
                      result |-> memory_on /\ o = "ok"]
    /\ UNCHANGED <<llm_vars, bot_vars, intent_call, trade_vars, wallet_vars>>

\* sqlite's LIKE: "%" matches any run of characters, "_" any one character,
\* letters match whatever their case
RECURSIVE Like(_, _)
Like(pattern, s) ==
    IF pattern = <<>> THEN s = <<>>
    ELSE IF Head(pattern) = "%"
         THEN Like(Tail(pattern), s) \/ (s # <<>> /\ Like(pattern, Tail(s)))
    ELSE /\ s # <<>>
         /\ Head(pattern) = "_" \/ Lower(Head(pattern)) = Lower(Head(s))
         /\ Like(Tail(pattern), Tail(s))

\* UserMemory.delete_memories_by_topic (memory.py 345-375): DELETE ... WHERE
\* user_id = ? AND topic LIKE f"%{topic}%"; True when the commit succeeded
\* and a row was deleted
delete_memories_by_topic(user_id, topic, o) ==
    /\ store_time < MaxStoreCalls
    /\ store_time' = store_time + 1
    /\ LET kept == SelectSeq(conversation_memory,
                        LAMBDA r : ~(/\ r.user_id = user_id
                                     /\ Like(<<"%">> \o topic \o <<"%">>, r.topic)))
       IN  /\ IF memory_on /\ o # "error"
              THEN conversation_memory' = kept
              ELSE UNCHANGED conversation_memory
           /\ store_call' = [op |-> "delete_memories_by_topic", user_id |-> user_id,
                             topic |-> topic, outcome |-> o,
                             result |-> memory_on /\ o = "ok"
                                        /\ Len(kept) < Len(conversation_memory)]
    /\ UNCHANGED <<llm_vars, bot_vars, intent_call, trade_vars, wallet_vars>>

\* UserMemory.delete_all_memories (memory.py 377-412): three DELETEs, an
\* UPDATE and the commit; done is the number of these five steps that ran
\* before one raised, and the statements that ran stay applied
delete_all_memories(user_id, done) ==
    /\ store_time < MaxStoreCalls
    /\ store_time' = store_time + 1
    /\ conversation_memory' =
          IF memory_on /\ done >= 1
          THEN SelectSeq(conversation_memory, LAMBDA r : r.user_id # user_id)
          ELSE conversation_memory
    /\ conversation_history' =
          IF memory_on /\ done >= 2
          THEN SelectSeq(conversation_history, LAMBDA r : r[1] # user_id)
          ELSE conversation_history
    /\ user_wallets' =
          IF memory_on /\ done >= 3
          THEN SelectSeq(user_wallets, LAMBDA r : r[1] # user_id)
          ELSE user_wallets
    /\ profiles' =
          IF memory_on /\ done >= 4 /\ user_id \in DOMAIN profiles
          THEN [profiles EXCEPT ![user_id] = 0]
          ELSE profiles
    /\ store_call' = [op |-> "delete_all_memories", user_id |-> user_id,
                      done |-> done, result |-> memory_on /\ done = 5]
    /\ UNCHANGED <<api_key, memory_on, conversations, tasks, started, last_call,
                   bot_vars, intent_call, trade_vars, tracked_wallets,
                   wallets_file, tracking>>

\* UserMemory.add_user_wallet(user_id, wallet_address, "eth") (memory.py
\* 185-236): the table after it; the UPDATE of an existing row writes the
\* network it already holds
add_user_wallet(wallets, user_id, wallet_address, o) ==
    IF o = "error" THEN wallets
    ELSE IF \E i \in 1..Len(wallets) : wallets[i] = <<user_id, wallet_address>>
    THEN wallets
    ELSE Append(wallets, <<user_id, wallet_address>>)

\* ------------------------------- Database.add_trade, update_user_stats
\* a number column: <<x>>, or <<>> for None / NULL
Some(x) == <<x>>
NoNum == <<>>
Usernames == {"alice"}

\* trade_type, profit_loss, profit_loss_pct of a trade_data dict
TradeShapes == {<<"buy", NoNum, NoNum>>,
                <<"complete", NoNum, NoNum>>,
                <<"complete", Some(5), Some(10)>>,
                <<"complete", Some(5), NoNum>>,
                <<"complete", Some(0 - 5), Some(0 - 10)>>}

RECURSIVE SumSeq(_)
SumSeq(q) == IF q = <<>> THEN 0 ELSE q[1][1] + SumSeq(Tail(q))

\* max(list, default=0) and min(list, default=0) over values that may be
\* None: comparing None with anything raises TypeError
Extreme(q, largest) ==
    IF q = <<>> THEN [raised |-> FALSE, value |-> Some(0)]
    ELSE IF Len(q) = 1 THEN [raised |-> FALSE, value |-> q[1]]
    ELSE IF \E i \in 1..Len(q) : q[i] = NoNum THEN [raised |-> TRUE, value |-> NoNum]
    ELSE LET S == {q[i][1] : i \in 1..Len(q)}
         IN  [raised |-> FALSE, value |-> Some(IF largest THEN Max(S) ELSE Min(S))]

\* SELECT * FROM trades WHERE user_id = ? AND trade_type = 'complete'
CompleteTrades(table, user_id) ==
    SelectSeq(table, LAMBDA t : t.user_id = user_id /\ t.trade_type = "complete")

Pcts(q) == [i \in 1..Len(q) |-> q[i].profit_loss_pct]

\* the statistics computed at data/db.py lines 396-403; a quotient a / b is
\* kept as <<a, b>>
Statistics(table, user_id) ==
    LET q == CompleteTrades(table, user_id)
        untyped == \E i \in 1..Len(q) : q[i].profit_loss = NoNum
        wins == SelectSeq(q, LAMBDA t : t.profit_loss # NoNum /\ t.profit_loss[1] > 0)
        losses == SelectSeq(q, LAMBDA t : t.profit_loss # NoNum /\ t.profit_loss[1] < 0)
        profit_loss_pcts == SelectSeq(Pcts(q), LAMBDA x : x # NoNum)
        win == Extreme(Pcts(wins), TRUE)
        loss == Extreme(Pcts(losses), FALSE)
    IN  [raised |-> untyped \/ win.raised \/ loss.raised,
         total_trades |-> Len(q),
         winning_trades |-> Len(wins),
         average_profit_pct |-> IF profit_loss_pcts # <<>>
                                THEN <<SumSeq(profit_loss_pcts), Len(profit_loss_pcts)>>
                                ELSE <<0, 1>>,
         largest_win_pct |-> win.value,
         largest_loss_pct |-> loss.value]

StatsRow(st, username, now) ==
    [username |-> username, total_trades |-> st.total_trades,
     winning_trades |-> st.winning_trades,
     average_profit_pct |-> st.average_profit_pct,
     largest_win_pct |-> st.largest_win_pct,
     largest_loss_pct |-> st.largest_loss_pct, last_updated |-> now]

\* Database.update_user_stats (data/db.py lines 375-446): the table after it,
\* the dict returned (<<>> for {}), and whether a TypeError leaves the
\* method. o = "error": the SELECT raises sqlite3.Error, which is caught at
\* lines 444-446; o = "commit": the row is written and the commit raises
update_user_stats(table, stats, user_id, username, now, o) ==
    LET st == Statistics(table, user_id)
        written == IF username # None
                   THEN [u \in DOMAIN stats \cup {user_id} |->
                            IF u = user_id THEN StatsRow(st, username, now)
                            ELSE stats[u]]
                   ELSE [u \in DOMAIN stats |->
                            IF u = user_id
                            THEN StatsRow(st, stats[u].username, now)
                            ELSE stats[u]]
    IN  IF o = "error"
        THEN [raised |-> FALSE, stats |-> stats, result |-> <<>>]
        ELSE IF CompleteTrades(table, user_id) = <<>>
        THEN [raised |-> FALSE, stats |-> stats, result |-> <<>>]
        ELSE IF st.raised
        THEN [raised |-> TRUE, stats |-> stats, result |-> <<>>]
        ELSE IF o = "commit"
        THEN [raised |-> FALSE, stats |-> written, result |-> <<>>]
        ELSE [raised |-> FALSE,
              stats |-> written,
              result |-> <<[user_id |-> user_id, total_trades |-> st.total_trades,
                            winning_trades |-> st.winning_trades,
                            win_rate |-> <<st.winning_trades * 100, st.total_trades>>,
                            average_profit_pct |-> st.average_profit_pct,
                            largest_win_pct |-> st.largest_win_pct,
                            largest_loss_pct |-> st.largest_loss_pct]>>]

\* Database.add_trade (data/db.py lines 305-344). o = "error": the INSERT
\* raises; o = "commit": add_trade's own commit (line 340) raises and the
\* rows written stay; nested is the outcome of the update_user_stats it
\* calls, which catches its sqlite3.Error itself
add_trade(user_id, shape, o, nested) ==
    /\ store_time < MaxStoreCalls
    /\ store_time' = store_time + 1
    /\ LET row == [user_id |-> user_id, trade_type |-> shape[1],
                   profit_loss |-> shape[2], profit_loss_pct |-> shape[3]]
           inserted == Append(trades, row)
           updates == shape[1] = "complete" /\ shape[2] # NoNum
           upd == update_user_stats(inserted, user_stats, user_id, None,
                                    store_time + 1, nested)
           raised == updates /\ upd.raised
       IN  IF o = "error"
           THEN /\ UNCHANGED trade_vars
                /\ store_call' = [op |-> "add_trade", user_id |-> user_id,
                                  shape |-> shape, outcome |-> o, nested |-> nested,
                                  updates |-> FALSE,
                                  raised |-> FALSE, result |-> FALSE]
           ELSE /\ trades' = inserted
                /\ user_stats' = IF updates THEN upd.stats ELSE user_stats
                /\ store_call' = [op |-> "add_trade", user_id |-> user_id,
                                  shape |-> shape, outcome |-> o, nested |-> nested,
                                  updates |-> updates,
                                  raised |-> raised,
                                  result |-> ~raised /\ o = "ok"]
    /\ UNCHANGED <<llm_vars, bot_vars, intent_call, conversation_memory, wallet_vars>>

\* a call of Database.update_user_stats
update_user_stats_call(user_id, username, o) ==
    /\ store_time < MaxStoreCalls
    /\ store_time' = store_time + 1
    /\ LET upd == update_user_stats(trades, user_stats, user_id, username,
                                    store_time + 1, o)
       IN  /\ user_stats' = upd.stats
           /\ store_call' = [op |-> "update_user_stats", user_id |-> user_id,
                             username |-> username, outcome |-> o,
                             again |-> /\ store_call.op = "update_user_stats"
                                       /\ store_call.outcome = "ok" /\ o = "ok"
                                       /\ store_call.user_id = user_id
                                       /\ store_call.username = username,
                             raised |-> upd.raised,
                             result |-> upd.result]
    /\ UNCHANGED <<llm_vars, bot_vars, intent_call, conversation_memory, trades,
                   wallet_vars>>

\* --------------------------------- WalletTracker._handle_track_request
\* an address is "0x" and 40 hexadecimal digits, kept as <<its first eight
\* characters, the other 34>>
Addresses == {<<"0xaaaaaa", "1">>, <<"0xaaaaaa", "2">>, <<"0xbbbbbb", "1">>}
\* what _fetch_wallet_balance returns: a number, or None (no API key, bad
\* status, any exception)
Balances == {"balance", None}
AlreadyText == <<"I'm already tracking that wallet.">>
TrackingText == <<"I'm now tracking wallet">>
NotVerifiedText == <<"I couldn't verify that wallet.">>

\* the topics f"tracked_{wallet_address[:8]}" and f"balance_{wallet_address[:8]}"
WalletTopic(kind, wallet_address) == <<kind, wallet_address[1]>>

\* the wallet_info rows whose content names the address
WalletInfo(table, wallet_address) ==
    {i \in 1..Len(table) : /\ table[i].memory_type = "wallet_info"
                           /\ table[i].content[2] = wallet_address}

\* how a file write ends: written whole; os.makedirs or open() raises and the
\* file is as it was; open(path, "w") has emptied the file and json.dump or
\* the close raises, which leaves a file _load_tracked_wallets reads as {}
SaveResults == {"saved", "unopened", "truncated"}

\* _save_tracked_wallets (tracker.py lines 72-81), as the addresses a later
\* _load_tracked_wallets reads from the file; an exception is logged and
\* dropped
_save_tracked_wallets(wallets, saved) ==
    CASE saved = "saved" -> DOMAIN wallets
      [] saved = "unopened" -> wallets_file
      [] saved = "truncated" -> {}

\* del self.tracked_wallets[wallet_address] (tracker.py lines 227, 233)
Rollback(wallets, wallet_address) ==
    [a \in DOMAIN wallets \ {wallet_address} |-> wallets[a]]

\* what _handle_track_request writes before its await for an address that is
\* not tracked (tracker.py lines 184-208); saved, w and m are the outcomes of
\* the file write, of add_user_wallet and of add_memory, none of which the
\* method reads
TrackStored(wallet_address, user_id, saved, w, m) ==
    LET wallets == (wallet_address :> user_id) @@ tracked_wallets
    IN  [tracked_wallets |-> wallets,
         wallets_file |-> _save_tracked_wallets(wallets, saved),
         user_wallets |-> IF memory_on
                          THEN add_user_wallet(user_wallets, user_id, wallet_address, w)
                          ELSE user_wallets,
         conversation_memory |->
             IF memory_on /\ m # "error"
             THEN add_memory_table(conversation_memory,
                      <<user_id, "wallet_info", WalletTopic("tracked_", wallet_address)>>,
                      <<"tracking", wallet_address>>,
                      <<"{", wallet_address, "}">>, store_time + 1)
             ELSE conversation_memory,
         store_time |-> IF memory_on THEN store_time + 1 ELSE store_time]

\* what _handle_track_request writes once the balance is there (tracker.py
\* lines 213-235), and the text it returns
TrackVerified(wallet_address, user_id, balance, saved, m) ==
    LET wallets == Rollback(tracked_wallets, wallet_address)
    IN  IF balance # None
        THEN [tracked_wallets |-> tracked_wallets,
              wallets_file |-> wallets_file,
              user_wallets |-> user_wallets,
              conversation_memory |->
                  IF memory_on /\ m # "error"
                  THEN add_memory_table(conversation_memory,
                           <<user_id, "wallet_info", WalletTopic("balance_", wallet_address)>>,
                           <<"balance", wallet_address>>,
                           <<"{", wallet_address, "}">>, store_time + 1)
                  ELSE conversation_memory,
              store_time |-> IF memory_on THEN store_time + 1 ELSE store_time,
              text |-> TrackingText]
        ELSE [tracked_wallets |-> wallets,
              wallets_file |-> _save_tracked_wallets(wallets, saved),
              user_wallets |-> user_wallets,
              conversation_memory |-> conversation_memory,
              store_time |-> store_time,
              text |-> NotVerifiedText]

\* the tracker's dict, its file and the two tables become those of x
Writes(x) ==
    /\ x.store_time <= MaxStoreCalls
    /\ tracked_wallets' = x.tracked_wallets
    /\ wallets_file' = x.wallets_file
    /\ user_wallets' = x.user_wallets
    /\ conversation_memory' = x.conversation_memory
    /\ store_time' = x.store_time

\* _handle_track_request up to `await self._fetch_wallet_balance(...)`
\* (tracker.py lines 176-212)
_handle_track_request_begin(wallet_address, user_id, saved, w, m) ==
    /\ IF wallet_address \in DOMAIN tracked_wallets
       THEN /\ store_call' = [op |-> "_handle_track_request", user_id |-> user_id,
                              wallet_address |-> wallet_address, balance |-> None,
                              result |-> AlreadyText]
            /\ UNCHANGED <<tracked_wallets, wallets_file, user_wallets, tracking,
                           conversation_memory, store_time>>
       ELSE /\ Writes(TrackStored(wallet_address, user_id, saved, w, m))
            /\ tracking' = tracking \cup {[user_id |-> user_id,
                                          wallet_address |-> wallet_address]}
            /\ UNCHANGED store_call
    /\ UNCHANGED <<llm_vars, bot_vars, intent_call, trade_vars>>

\* _handle_track_request after the balance came back (tracker.py lines
\* 213-235)
_handle_track_request_end(req, balance, saved, m) ==
    /\ req \in tracking
    /\ tracking' = tracking \ {req}
    /\ LET x == TrackVerified(req.wallet_address, req.user_id, balance, saved, m)
       IN  /\ Writes(x)
           /\ store_call' = [op |-> "_handle_track_request", user_id |-> req.user_id,
                             wallet_address |-> req.wallet_address,
                             balance |-> balance, result |-> x.text]
    /\ UNCHANGED <<llm_vars, bot_vars, intent_call, trade_vars>>

NextWallet ==
    \/ \E a \in Addresses, u \in Users, saved \in SaveResults, w \in DbResults,
          m \in DbResults :
          _handle_track_request_begin(a, u, saved, w, m)
    \/ \E req \in tracking, balance \in Balances, saved \in SaveResults,
          m \in DbResults :
          _handle_track_request_end(req, balance, saved, m)

\* the wallet tracker alone
SpecWallet == InitBotOnly /\ [][NextWallet]_vars

\* ------------------------------------------------ on_message and Router
\* the coroutine at t moves on to t2
Step(t, t2) == turns' = (turns (-) SetToBag({t})) (+) SetToBag({t2})

\* a stage's exception that leaves Router.analyze and ends in on_message's
\* own except clause (events.py lines 114-117): logged, no reply
FailEscapes(t, stage) ==
    [t EXCEPT !.ran = t.ran \cup {stage}, !.failed_at = stage, !.pc = "done"]

\* an except clause that hands the apology back as a proactive reply
FailProactive(t, stage) ==
    [t EXCEPT !.ran = t.ran \cup {stage}, !.failed_at = stage,
              !.response = ApologyText, !.is_proactive = TRUE, !.pc = "respond"]

\* Router.analyze's except clause (router_new.py lines 197-199)
Fail(t, stage) ==
    [t EXCEPT !.ran = t.ran \cup {stage}, !.failed_at = stage,
              !.response = ApologyText, !.is_proactive = FALSE, !.pc = "respond"]

\* an on_message without the test of the author: the bot's own messages
\* go to Router.analyze like any other
on_message_begin_any_author(old, author, channel_id, direct, command) ==
    /\ \/ old = IdleTurn /\ BagCardinality(turns) < MaxMessages
       \/ BagIn(old, turns) /\ old.pc = "done"
    /\ LET m == [IdleTurn EXCEPT !.author = author, !.channel_id = channel_id,
                                 !.direct = direct, !.command = command]
           t == IF command THEN [m EXCEPT !.pc = "done"]
                ELSE [m EXCEPT !.current_time = clock, !.pc = "should_respond"]
       IN  turns' = (turns (-) SetToBag({old})) (+) SetToBag({t})
    /\ UNCHANGED <<llm_vars, cooldowns, clock, intent_call, store_vars>>

\* on_message up to the call of Router.analyze (events.py lines 58-80,
\* router_new.py lines 180-192); old is a finished call the model forgets
on_message_begin(old, author, channel_id, direct, command) ==
    /\ \/ old = IdleTurn /\ BagCardinality(turns) < MaxMessages
       \/ BagIn(old, turns) /\ old.pc = "done"
    /\ LET m == [IdleTurn EXCEPT !.author = author, !.channel_id = channel_id,
                                 !.direct = direct, !.command = command]
           t == IF command THEN [m EXCEPT !.pc = "done"]
                ELSE IF author = Bot THEN [m EXCEPT !.pc = "done"]
                ELSE [m EXCEPT !.current_time = clock, !.pc = "should_respond"]
       IN  turns' = (turns (-) SetToBag({old})) (+) SetToBag({t})
    /\ UNCHANGED <<llm_vars, cooldowns, clock, intent_call, store_vars>>

\* Router._should_respond (router_new.py lines 93-113)
_should_respond(t, answer) ==
    /\ BagIn(t, turns)
    /\ t.pc = "should_respond"
    /\ Step(t, IF answer \in {"malformed", "error"}
               THEN Fail(t, "should_respond")
               ELSE [t EXCEPT !.ran = t.ran \cup {"should_respond"},
                              !.should_continue = (answer = "true"),
                              !.pc = "analyze_intent"])
    /\ UNCHANGED <<llm_vars, cooldowns, clock, intent_call, store_vars>>

\* Router._analyze_intent (router_new.py lines 115-135)
_analyze_intent(t, answer) ==
    /\ BagIn(t, turns)
    /\ t.pc = "analyze_intent"
    /\ Step(t, IF answer \in {"malformed", "error"}
               THEN Fail(t, "analyze_intent")
               ELSE [t EXCEPT !.ran = t.ran \cup {"analyze_intent"},
                              !.current_tool = answer,
                              !.pc = "execute_tool"])
    /\ UNCHANGED <<llm_vars, cooldowns, clock, intent_call, store_vars>>

\* Router._execute_tool (router_new.py lines 137-150) up to the return of
\* the tool's process, or, for a request to track a wallet that is not
\* tracked yet, up to the await inside WalletTracker._handle_track_request
\* (tracker.py line 212), where other messages see what it has stored.
\* wallet_address is the address WalletTracker.process_text finds in the
\* text of the message (NoAddress when it asks for no tracking), kept by the
\* coroutine until _handle_track_request returns
_execute_tool(t, outcome, output, wallet_address, saved, w, m) ==
    /\ BagIn(t, turns)
    /\ t.pc = "execute_tool"
    /\ IF t.current_tool = "track_wallet" /\ wallet_address # NoAddress
       THEN IF wallet_address \in DOMAIN tracked_wallets
            THEN /\ Step(t, [t EXCEPT !.ran = t.ran \cup {"execute_tool"},
                                      !.processed = t.current_tool,
                                      !.tool_response = AlreadyText,
                                      !.pc = "generate_response"])
                 /\ UNCHANGED store_vars
            ELSE /\ Writes(TrackStored(wallet_address, t.author, saved, w, m))
                 /\ Step(t, [t EXCEPT !.processed = t.current_tool,
                                      !.wallet_address = wallet_address,
                                      !.pc = "verify_wallet"])
                 /\ UNCHANGED <<store_call, trade_vars, tracking>>
       ELSE /\ Step(t, IF t.current_tool \notin tools
                       THEN Fail(t, "execute_tool")
                       ELSE IF outcome = "raises"
                       THEN Fail([t EXCEPT !.processed = t.current_tool], "execute_tool")
                       ELSE [t EXCEPT !.ran = t.ran \cup {"execute_tool"},
                                      !.processed = t.current_tool,
                                      !.tool_response = output,
                                      !.pc = "generate_response"])
            /\ UNCHANGED store_vars
    /\ UNCHANGED <<llm_vars, cooldowns, clock, intent_call>>

\* Router._execute_tool once the balance of the wallet came back: the rest
\* of _handle_track_request (tracker.py lines 213-235) and of _execute_tool
_execute_tool_end(t, balance, saved, m) ==
    /\ BagIn(t, turns)
    /\ t.pc = "verify_wallet"
    /\ LET x == TrackVerified(t.wallet_address, t.author, balance, saved, m)
       IN  /\ Writes(x)
           /\ Step(t, [t EXCEPT !.ran = t.ran \cup {"execute_tool"},
                                !.wallet_address = NoAddress,
                                !.tool_response = x.text,
                                !.pc = "generate_response"])
    /\ UNCHANGED <<llm_vars, cooldowns, clock, intent_call, store_call, trade_vars,
                   tracking>>

\* Router._generate_response and the return of Router.analyze
\* (router_new.py lines 152-168 and 192-196)
_generate_response(t, outcome, answer) ==
    /\ BagIn(t, turns)
    /\ t.pc = "generate_response"
    /\ Step(t, IF outcome = "raises"
               THEN Fail(t, "generate_response")
               ELSE [t EXCEPT !.ran = t.ran \cup {"generate_response"},
                              !.final_response = answer,
                              !.response = IF ~t.should_continue THEN NoneText ELSE answer,
                              !.is_proactive = FALSE,
                              !.pc = "respond"])
    /\ UNCHANGED <<llm_vars, cooldowns, clock, intent_call, store_vars>>

\* python truth value of the response text
Truthy(response) == response # NoneText /\ response # <<>>

\* an on_message that applies the cooldown to every reply, proactive or not
on_message_respond_gates_all(t) ==
    /\ BagIn(t, turns)
    /\ t.pc = "respond"
    /\ LET c == t.channel_id
       IN  IF ~Truthy(t.response)
           THEN /\ Step(t, [t EXCEPT !.pc = "done"])
                /\ UNCHANGED cooldowns
           ELSE IF c \in DOMAIN cooldowns /\ t.current_time - cooldowns[c] < 600
                THEN /\ Step(t, [t EXCEPT !.pc = "done"])
                     /\ UNCHANGED cooldowns
                ELSE /\ cooldowns' = (c :> t.current_time) @@ cooldowns
                     /\ Step(t, [t EXCEPT !.pc = "typing"])
    /\ UNCHANGED <<llm_vars, clock, intent_call, store_vars>>

\* on_message after Router.analyze returned, up to the typing delay
\* (events.py lines 83-105)
on_message_respond(t) ==
    /\ BagIn(t, turns)
    /\ t.pc = "respond"
    /\ LET c == t.channel_id
       IN  IF ~Truthy(t.response)
           THEN /\ Step(t, [t EXCEPT !.pc = "done"])
                /\ UNCHANGED cooldowns
           ELSE IF t.is_proactive
           THEN IF c \in DOMAIN cooldowns /\ t.current_time - cooldowns[c] < 600
                THEN /\ Step(t, [t EXCEPT !.pc = "done"])
                     /\ UNCHANGED cooldowns
                ELSE /\ cooldowns' = (c :> t.current_time) @@ cooldowns
                     /\ Step(t, [t EXCEPT !.pc = "typing"])
           ELSE /\ Step(t, [t EXCEPT !.pc = "typing"])
                /\ UNCHANGED cooldowns
    /\ UNCHANGED <<llm_vars, clock, intent_call, store_vars>>

\* on_message shows the typing indicator and sends the response (events.py
\* lines 101-117); when typing() or send() raises, the except clause of
\* lines 114-117 logs it and nothing is sent
on_message_send(t, delivered) ==
    /\ BagIn(t, turns)
    /\ t.pc = "typing"
    /\ Step(t, IF delivered
               THEN [t EXCEPT !.sent = TRUE, !.sent_at = clock, !.pc = "done"]
               ELSE [t EXCEPT !.pc = "done"])
    /\ UNCHANGED <<llm_vars, cooldowns, clock, intent_call, store_vars>>

\* any number of messages at once, none of them naming a wallet to track
\* (those are the messages of NextTurn and the requests of NextWallet)
NextBot ==
    \/ \E old \in BagToSet(turns) \cup {IdleTurn}, a \in Authors, c \in ChannelIds,
          d \in BOOLEAN, cmd \in BOOLEAN :
          on_message_begin(old, a, c, d, cmd)
    \/ \E t \in BagToSet(turns), answer \in GateAnswers : _should_respond(t, answer)
    \/ \E t \in BagToSet(turns), answer \in ToolAnswers : _analyze_intent(t, answer)
    \/ \E t \in BagToSet(turns), o \in CallOutcomes, out \in ToolReplies :
          _execute_tool(t, o, out, NoAddress, "saved", "ok", "ok")
    \/ \E t \in BagToSet(turns), o \in CallOutcomes, answer \in FinalTexts :
          _generate_response(t, o, answer)
    \/ \E t \in BagToSet(turns) : on_message_respond(t)
    \/ \E t \in BagToSet(turns), delivered \in BOOLEAN : on_message_send(t, delivered)

SpecBot == InitBotOnly /\ [][NextBot]_vars

\* ---------------------------------------------- one message at a time
\* on_message for one message after the other. StageStep is the completion
\* of a call Router.analyze awaits (router_new.py lines 109, 131, 144, 165),
\* returning or raising; LoopStep is the code of on_message after analyze
\* has returned and the completion of typing() and send()
StageStep ==
    \/ \E t \in BagToSet(turns), answer \in GateAnswers : _should_respond(t, answer)
    \/ \E t \in BagToSet(turns), answer \in ToolAnswers : _analyze_intent(t, answer)
    \/ \E t \in BagToSet(turns), o \in CallOutcomes, out \in ToolReplies,
          x \in TrackRequests, saved \in SaveResults, w \in DbResults,
          m \in DbResults : _execute_tool(t, o, out, x, saved, w, m)
    \/ \E t \in BagToSet(turns), balance \in Balances, saved \in SaveResults,
          m \in DbResults :
          _execute_tool_end(t, balance, saved, m)
    \/ \E t \in BagToSet(turns), o \in CallOutcomes, answer \in FinalTexts :
          _generate_response(t, o, answer)

LoopStep ==
    \/ \E t \in BagToSet(turns) : on_message_respond(t)
    \/ \E t \in BagToSet(turns), delivered \in BOOLEAN : on_message_send(t, delivered)

\* any number of messages at once, track requests among them
NextBotTrack ==
    \/ \E old \in BagToSet(turns) \cup {IdleTurn}, a \in Authors, c \in ChannelIds,
          d \in BOOLEAN, cmd \in BOOLEAN :
          on_message_begin(old, a, c, d, cmd)
    \/ StageStep
    \/ LoopStep

SpecBotTrack == InitBotOnly /\ [][NextBotTrack]_vars

NextTurn ==
    \/ \E old \in BagToSet(turns) \cup {IdleTurn}, a \in Authors, c \in ChannelIds,
          d \in BOOLEAN, cmd \in BOOLEAN :
          /\ old = IdleTurn => turns = EmptyBag
          /\ on_message_begin(old, a, c, d, cmd)
    \/ StageStep
    \/ LoopStep

\* the code that follows the return of Router.analyze without an await in
\* between (events.py lines 80-101)
ResumeStep == \E t \in BagToSet(turns) : on_message_respond(t)

\* the event loop runs a coroutine whose await has returned. The awaited
\* calls themselves (chain.ainvoke, tool.process, typing(), send()) carry no
\* timeout (router_new.py lines 53, 109, 131, 144, 165; events.py lines 101,
\* 108), so nothing obliges them to complete
SpecTurn == InitBotOnly /\ [][NextTurn]_vars /\ WF_vars(ResumeStep)

\* ------------------------------------------- on_message and the clock
\* the event loop's clock moves on at any moment: while Router.analyze is
\* awaited (events.py line 80), during typing() and asyncio.sleep (lines
\* 101-105) and before send() returns (line 108)
Delays == {600}

Tick(d) ==
    /\ clock + d <= MaxClock
    /\ clock' = clock + d
    /\ UNCHANGED <<llm_vars, turns, cooldowns, intent_call, store_vars>>

NextLLM ==
    \/ \E u \in Users, text \in Texts, ch \in Channels, db \in DbOutcomes,
          failed \in SUBSET SummaryReads :
          process_message_begin(u, text, ch[1], ch[2], db[1], db[2], failed)
    \/ \E task \in BagToSet(tasks), o \in HttpOutcomes, r \in LLMReplies,
          logged \in DbResults :
          process_message_end(task, o, r, logged)
    \/ \E u \in Users, text \in Texts, out \in ToolOutputs :
          generate_response_with_tool_output_nokey(u, text, out)
    \/ \E u \in Users, text \in Texts, out \in ToolOutputs, ch \in Channels :
          generate_response_with_tool_output_begin(u, text, out, ch[1])
    \/ \E task \in BagToSet(tasks), o \in HttpOutcomes, r \in LLMReplies,
          logged \in DbResults :
          generate_response_with_tool_output_end(task, o, r, logged)
    \/ \E u \in Users : clear_conversation(u)
    \/ \E u \in Users : reset_conversation(u)

Spec == Init /\ [][NextLLM]_vars

\* the same calls, each run to completion before the next one starts
NextSerial ==
    \/ \E u \in Users, text \in Texts, ch \in Channels, db \in DbOutcomes,
          failed \in SUBSET SummaryReads :
          /\ tasks = EmptyBag
          /\ process_message_begin(u, text, ch[1], ch[2], db[1], db[2], failed)
    \/ \E task \in BagToSet(tasks), o \in HttpOutcomes, r \in LLMReplies,
          logged \in DbResults :
          process_message_end(task, o, r, logged)
    \/ \E u \in Users, text \in Texts, out \in ToolOutputs :
          tasks = EmptyBag /\ generate_response_with_tool_output_nokey(u, text, out)
    \/ \E u \in Users, text \in Texts, out \in ToolOutputs, ch \in Channels :
          tasks = EmptyBag /\ generate_response_with_tool_output_begin(u, text, out, ch[1])
    \/ \E task \in BagToSet(tasks), o \in HttpOutcomes, r \in LLMReplies,
          logged \in DbResults :
          generate_response_with_tool_output_end(task, o, r, logged)
    \/ \E u \in Users : tasks = EmptyBag /\ clear_conversation(u)
    \/ \E u \in Users : tasks = EmptyBag /\ reset_conversation(u)

SpecSerial == Init /\ [][NextSerial]_vars

\* ------------------------------------------------------------ properties
Quiescent == tasks = EmptyBag

\* the entries after the system message are (user, assistant) pairs in order
WholePairs(h) ==
    /\ Len(h) % 2 = 1
    /\ \A i \in 2..Len(h) : h[i].role = IF i % 2 = 0 THEN "user" ELSE "assistant"

SystemOnly(h) == Len(h) = 1 /\ h[1].role = "system"

\* C1: once every turn has run to completion, no requester's history is longer
\* than 1 + 2*context_window_size
C1_HistoryBounded ==
    Quiescent =>
        \A u \in DOMAIN conversations :
            Len(conversations[u]) <= 1 + 2 * context_window_size

\* C2: a turn that starts on a history of whole (user, assistant) pairs, with
\* no other turn in flight, leaves a user message at index 1 (eviction removes
\* whole pairs, never half of one)
C2_EvictsWholePairs ==
    [][\A u \in Users :
          (/\ Quiescent
           /\ u \in DOMAIN conversations
           /\ WholePairs(conversations[u])
           /\ conversations'[u] # conversations[u]
           /\ Len(conversations'[u]) > 1)
          => conversations'[u][2].role = "user"]_vars

\* C3: every existing conversation history is non-empty and starts with the
\* system message, in every interleaving of process_message,
\* generate_response_with_tool_output and clear_conversation
C3_SystemFirst ==
    \A u \in DOMAIN conversations :
        /\ Len(conversations[u]) >= 1
        /\ conversations[u][1].role = "system"

\* C3 witness: a history that has been truncated and then received its reply
C3_Truncated ==
    \E u \in DOMAIN conversations :
        /\ Len(conversations[u]) = max_history + 1
        /\ conversations[u][2].role = "assistant"

\* C4 as stated: reset leaves exactly one system entry and returns true iff
\* there was history beyond the system message, so a reset of a history that
\* is already system-message-only returns false
C4_ResetOriginal ==
    [][\A u \in Users :
          clear_conversation(u) =>
             /\ u \in DOMAIN conversations => SystemOnly(conversations'[u])
             /\ last_call'.value =
                   (u \in DOMAIN conversations /\ Len(conversations[u]) > 1)]_vars

\* C4 amended: reset of a requester with a conversation entry leaves exactly
\* its system entry and returns true, also when the history was already
\* system-message-only; without an entry it returns false and creates none
C4_Reset ==
    [][\A u \in Users :
          clear_conversation(u) =>
             /\ last_call'.value = (u \in DOMAIN conversations)
             /\ u \in DOMAIN conversations =>
                   conversations'[u] = <<conversations[u][1]>>
             /\ u \notin DOMAIN conversations => conversations' = conversations
             /\ \A v \in DOMAIN conversations' : SystemOnly(conversations'[v])
                                                 \/ conversations'[v] = conversations[v]]_vars

\* C4 witness: a reset has returned true and left a system-message-only history
C4_ResetDone ==
    /\ last_call.op = "clear_conversation"
    /\ last_call.value = TRUE
    /\ last_call.user_id \in DOMAIN conversations
    /\ SystemOnly(conversations[last_call.user_id])

\* C5: the reset command leaves the user's conversation system-message-only
\* and reports success
C5_ResetCommandClears ==
    [][\A u \in Users :
          reset_conversation(u) =>
             /\ last_call'.value = ResetText
             /\ u \in DOMAIN conversations => SystemOnly(conversations'[u])]_vars

\* C6: once the gate has decided false, neither the classifier, nor a
\* handler's process, nor the synthesis stage runs for that message
C6_SuppressedAtOnce ==
    \A t \in BagToSet(turns) :
        ~t.should_continue =>
            /\ t.ran \subseteq {"should_respond"}
            /\ t.processed = None

\* C7: for a direct mention or direct message the gate decides to respond,
\* whatever the LLM answers
C7_DirectAlwaysResponds ==
    \A t \in BagToSet(turns) :
        (t.direct /\ "should_respond" \in t.ran /\ t.failed_at # "should_respond")
            => t.should_continue

\* C8: when the LLM call or the parsing fails inside the gate, the turn has no
\* reply text and nothing is sent
C8_GateFailureSilent ==
    \A t \in BagToSet(turns) :
        t.failed_at = "should_respond" =>
            /\ t.response = NoneText
            /\ t.pc # "typing"
            /\ ~t.sent

\* C9: analyze_intent never raises and returns one of the four intents with a
\* confidence in [0,1] (0..100 hundredths)
C9_ClassifyTotal ==
    intent_call.outcome # None =>
        /\ ~intent_call.result.raised
        /\ intent_call.result.intent \in valid_intents
        /\ intent_call.result.confidence \in 0..100

\* the reply analyze_intent reads, with an API key
ReplyRead(call) == _call_llm_api(TRUE, call.outcome, call.content)

\* not a "label|number" line
Unparseable(r) ==
    \/ r = NoneText
    \/ Len(Split(Strip(r))) # 2
    \/ ~Float(Strip(Split(Strip(r))[2])).ok

\* a "label|..." line whose label is none of the four intents
OutOfVocabulary(r) ==
    /\ r # NoneText
    /\ Len(Split(Strip(r))) = 2
    /\ Strip(Split(Strip(r))[1]) \notin valid_intents

\* C10: an unparseable reply or an out-of-vocabulary label yields general
\* with one fixed confidence: the one returned for the empty reply
C10_FixedFallback ==
    (/\ intent_call.outcome # None
     /\ api_key
     /\ Unparseable(ReplyRead(intent_call)) \/ OutOfVocabulary(ReplyRead(intent_call)))
    => /\ intent_call.result.intent = <<"general">>
       /\ intent_call.result.confidence = analyze_intent(TRUE, "200", <<>>).confidence

\* C11: once the orchestrator's classifier stage has run, the turn has not
\* failed in it and the tool selected is one of the four registered handlers
C11_ClassificationNeverFails ==
    \A t \in BagToSet(turns) :
        "analyze_intent" \in t.ran =>
            /\ t.failed_at # "analyze_intent"
            /\ t.current_tool \in tools

\* C13: a turn in which a stage raised returns the fixed apology, not
\* proactive, and goes on in on_message as a turn with a reply
C13_NoExceptionEscapes ==
    \A t \in BagToSet(turns) :
        t.failed_at # None =>
            /\ t.response = ApologyText
            /\ ~t.is_proactive
            /\ t.pc \in {"respond", "typing", "done"}

\* C13 witness: a handler's process raised and the apology was sent
C13_HandlerThrew ==
    \E t \in BagToSet(turns) :
        /\ t.failed_at = "execute_tool"
        /\ t.processed \in tools
        /\ t.response = ApologyText
        /\ t.sent

\* C12: without an API key analyze_intent does not raise and returns one of
\* the four intents, whatever an LLM request would have answered
C12_NoKeyClassifies ==
    (intent_call.outcome # None /\ ~api_key) =>
        /\ ~intent_call.result.raised
        /\ intent_call.result.intent \in valid_intents
        /\ intent_call.result = analyze_intent(FALSE, "Exception", NoneText)

\* C14: without an API key generate_response_with_tool_output returns the
\* tool output it was given, whatever the output and the original message,
\* and no call is left waiting for the LLM
C14_SynthesisIdentity ==
    [][/\ \A u \in Users, text \in Texts, out \in ToolOutputs :
             generate_response_with_tool_output_nokey(u, text, out) =>
                 /\ last_call'.value = out
                 /\ tasks' = tasks
       /\ ~api_key =>
             \A task \in BagToSet(tasks') :
                 task.op # "generate_response_with_tool_output"]_vars

\* C14 witness: a synthesis without API key has returned its tool output
C14_Returned ==
    /\ ~api_key
    /\ last_call.op = "generate_response_with_tool_output"
    /\ last_call.value \in ToolOutputs

\* this step appends the pair (user: text, assistant: reply) to u's history
AppendsPair(u, text, reply) ==
    /\ u \in DOMAIN conversations'
    /\ LET h == conversations'[u]
           before == IF u \in DOMAIN conversations THEN Len(conversations[u]) ELSE 1
       IN  /\ Len(h) = before + 2
           /\ h[Len(h) - 1] = Message("user", text, None)
           /\ h[Len(h)] = Message("assistant", reply, None)

\* C15: every completed generate_response_with_tool_output, with or without
\* API key and whatever the LLM request's outcome, appends exactly the pair
\* (user: original message, assistant: returned reply) to the user's history
C15_SynthesisAppendsPair ==
    [][/\ \A u \in Users, text \in Texts, out \in ToolOutputs :
             generate_response_with_tool_output_nokey(u, text, out) =>
                 AppendsPair(u, text, out)
       /\ \A task \in BagToSet(tasks), o \in HttpOutcomes, r \in LLMReplies,
             logged \in DbResults :
             generate_response_with_tool_output_end(task, o, r, logged) =>
                 AppendsPair(task.user_id, task.text, last_call'.value)]_vars

\* C16: when the LLM request of a synthesis fails, the call returns the raw
\* tool output and the reply stored in the history is that output
C16_SynthesisFallsBack ==
    [][\A task \in BagToSet(tasks), o \in HttpOutcomes \ {"200"}, r \in LLMReplies,
          logged \in DbResults :
          (api_key /\ generate_response_with_tool_output_end(task, o, r, logged)) =>
              /\ last_call'.value = task.tool_output
              /\ LET h == conversations'[task.user_id]
                 IN  h[Len(h)].content = task.tool_output]_vars

\* this step lets t's on_message go on to typing and sending
Allowed(t) ==
    turns' = (turns (-) SetToBag({t})) (+) SetToBag({[t EXCEPT !.pc = "typing"]})

\* this step is t's send, and it delivers the reply to the channel
Delivered(t) ==
    turns' = (turns (-) SetToBag({t}))
             (+) SetToBag({[t EXCEPT !.sent = TRUE, !.sent_at = clock, !.pc = "done"]})

HoldsUserMessage(u, text) ==
    /\ u \in DOMAIN conversations
    /\ \E i \in 1..Len(conversations[u]) :
          conversations[u][i].role = "user" /\ conversations[u][i].content = text

\* C21: in every interleaving the reply process_message appends comes
\* immediately after the user message of the same turn, while that message
\* is still in the history
C21_AppendsSerialized ==
    [][\A task \in BagToSet(tasks), o \in HttpOutcomes, r \in LLMReplies,
          logged \in DbResults :
          (/\ process_message_end(task, o, r, logged)
           /\ HoldsUserMessage(task.user_id, task.text)) =>
              LET h == conversations'[task.user_id]
              IN  /\ h[Len(h) - 1].role = "user"
                  /\ h[Len(h) - 1].content = task.text]_vars

FrameChannels == {"c1", "c2"}

InitFrame == Init /\ api_key

\* the stages of Router.analyze; the tracker has no memory handler either,
\* so add_user_wallet and add_memory are not called and have no outcome
FrameStageStep ==
    \/ \E t \in BagToSet(turns), answer \in GateAnswers : _should_respond(t, answer)
    \/ \E t \in BagToSet(turns), answer \in ToolAnswers : _analyze_intent(t, answer)
    \/ \E t \in BagToSet(turns), o \in CallOutcomes, out \in ToolReplies,
          x \in TrackRequests, saved \in SaveResults :
          _execute_tool(t, o, out, x, saved, "ok", "ok")
    \/ \E t \in BagToSet(turns), balance \in Balances, saved \in SaveResults :
          _execute_tool_end(t, balance, saved, "ok")
    \/ \E t \in BagToSet(turns), o \in CallOutcomes, answer \in FinalTexts :
          _generate_response(t, o, answer)

NextFrame ==
    \/ \E u \in Users, text \in Texts, ch \in Channels :
          process_message_begin(u, text, ch[1], ch[2], "ok", "ok", {})
    \/ \E task \in BagToSet(tasks), r \in LLMReplies :
          process_message_end(task, "200", r, "ok")
    \/ \E old \in BagToSet(turns) \cup {IdleTurn}, c \in FrameChannels :
          /\ old = IdleTurn => turns = EmptyBag
          /\ on_message_begin(old, "u1", c, FALSE, FALSE)
    \/ FrameStageStep
    \/ LoopStep
    \/ \E d \in Delays : Tick(d)

SpecFrame == InitFrame /\ [][NextFrame]_vars

\* the entry of k is the same in f and g
SameEntry(f, g, k) ==
    /\ (k \in DOMAIN f) = (k \in DOMAIN g)
    /\ k \in DOMAIN f => f[k] = g[k]

C27_NeverProactive ==
    /\ cooldowns = <<>>
    /\ \A t \in BagToSet(turns) : ~t.is_proactive

\* replies have been sent, one after the whole workflow and one after a
\* stage raised, and the cooldown map is still empty
C27_RepliedWithoutCooldown ==
    /\ cooldowns = <<>>
    /\ \E t \in BagToSet(turns) :
          t.sent /\ t.failed_at = None /\ "generate_response" \in t.ran
    /\ \E t \in BagToSet(turns) : t.sent /\ t.failed_at # None

\* C30: the on_message of a message written by the bot itself, or starting
\* with the command prefix, has ended at once: no stage of the router has
\* run for it and on_message has sent nothing
C30_OwnAndCommandIgnored ==
    \A t \in BagToSet(turns) :
        (t.author = Bot \/ t.command) =>
            /\ t.pc = "done"
            /\ t.ran = {}
            /\ t.response = NoneText
            /\ ~t.sent

\* a message of the bot and a command of a user have both been seen
C30_BothSeen ==
    /\ \E t \in BagToSet(turns) : t.author = Bot /\ ~t.command /\ t.pc = "done"
    /\ \E t \in BagToSet(turns) : t.author # Bot /\ t.command /\ t.pc = "done"

\* C29: a process_message whose profile calls succeed leaves the requester's
\* interactions_count one higher than before, 1 for a requester without a
\* profile
C29_CountsMessages ==
    [][\A u \in Users, text \in Texts, ch \in Channels :
          process_message_begin(u, text, ch[1], ch[2], "ok", "ok", {}) =>
              /\ u \in DOMAIN profiles'
              /\ profiles'[u] = IF u \in DOMAIN profiles THEN profiles[u] + 1 ELSE 1]_vars

\* C28: after a track request whose balance could not be fetched the address
\* is not in tracked_wallets, not in the saved file, not in the user's
\* user_wallets rows and in no wallet_info memory
C28_FailedTrackRolledBack ==
    [][\A req \in tracking, saved \in SaveResults :
          _handle_track_request_end(req, None, saved, "ok") =>
             /\ req.wallet_address \notin DOMAIN tracked_wallets'
             /\ req.wallet_address \notin wallets_file'
             /\ \A i \in 1..Len(user_wallets') :
                   user_wallets'[i] # <<req.user_id, req.wallet_address>>
             /\ WalletInfo(conversation_memory', req.wallet_address) = {}]_vars
====
